---- MODULE Spec2Model ----
(***************************************************************************)
(* The tool-call handlers of the Google Workspace MCP server               *)
(* (src/src/index.ts) over the account manager they call.                  *)
(*                                                                         *)
(* The handlers (CallToolRequestSchema handler, formatErrorResponse, run)  *)
(* are translated from src/src/index.ts.  The account manager itself       *)
(* (modules/accounts) is not part of the available sources: its            *)
(* operations validateAccount, validateToken, refreshToken, saveToken,     *)
(* getTokenFromCode, generateAuthUrl, removeAccount and listAccounts are   *)
(* modelled from the written specification (Account Registry, Token Store, *)
(* Scope Reconciler, Refresh Engine, Authorization Flow Builder), in the   *)
(* shape the handler uses them: validateToken answers                      *)
(* {valid, token, reason} and reports an expired access token with reason  *)
(* 'Token expired', and the handler itself calls refreshToken and          *)
(* saveToken (index.ts 305-321).                                           *)
(*                                                                         *)
(* Every await of a handler is a point where other handlers run, so each   *)
(* handler is a small process: one action per stretch of code between two  *)
(* awaits.                                                                 *)
(***************************************************************************)
EXTENDS Integers, Sequences, FiniteSets, TLC

\* ------------------------------------------------------------------ bounds

\* Number of tool calls the server receives; call p is served by handler p.
MaxCalls == 2

\* Saturation point of the refresh-request counter (a history variable).
MaxCount == 2

\* Largest number of attachments a draft comes with.
MaxAttachments == 1

Procs == 1..MaxCalls

Emails == {"a@x.com", "b@x.com"}

\* The account the calls of Spec are about; the other account is only stored.
Focus == {"a@x.com"}

Scopes == {"read", "write"}

\* required_scopes values a caller sends.
RequiredSets == {{"read"}, {"write"}}

\* Authorization codes the authorization server can hand to a user.
Codes == {"c1"}

NoCode == "none"

\* (category, description) pairs a caller sends with use_google_account.
Metas == {[category |-> "work", description |-> "d1"],
          [category |-> "personal", description |-> "d2"]}

\* ------------------------------------------------------------------- state

VARIABLES
  registry,     \* Account Registry: sequence of account records (insertion order)
  tokens,       \* Token Store: email -> credential (NoToken when absent)
  pending,      \* Pending Authorizations: scope sets of the issued consent URLs
  codes,        \* authorization server: state of every authorization code
  grants,       \* authorization server: refresh token -> scope set of its grant
  revoked,      \* authorization server: refresh tokens that are no longer valid
  issued,       \* authorization server: serial of the last token it issued
  inflight,     \* Refresh Engine: refresh tokens with a request in flight
  calls,        \* number of tool calls received so far
  pc,           \* handler p: where it is ("idle": serving no call)
  args,         \* handler p: request.params (name and arguments)
  tokenStatus,  \* handler p: const tokenStatus (index.ts 305)
  newToken,     \* handler p: const newToken / tokenData (index.ts 309, 324)
  storeUp,      \* Token Store: whether its storage answers (a read or write
                \* made while it does not fails with an I/O error)
  boot,         \* GSuiteServer.run(): where it is and the modules it has
                \* initialised
  gmailClient,  \* DraftService: whether updateClient has given it a client
  draft,        \* DraftService: the operation invoked last (its parameters,
                \* where it is, the calls it has made, how it ended)
  sent,         \* the responses returned by the step just taken, each with
                \* the request it answers
  hist          \* history, read by no handler:
                \*   refreshReqs[e]: refresh requests sent for account e since its
                \*     access token last expired and none of them failed
                \*   rejected: refresh tokens the server has rejected a refresh of
                \*   reused: codes presented for exchange after they were consumed
                \*   absentForget: the latest forget_google_account call found
                \*     neither a record nor a credential of its account
                \*   abandoned: handlers that have served a call whose caller
                \*     gave up waiting for the answer

vars == <<registry, tokens, pending, codes, grants, revoked, issued, inflight,
          calls, pc, args, tokenStatus, newToken, storeUp, boot, gmailClient,
          draft, sent, hist>>

storeVars == <<registry, tokens>>
serverVars == <<codes, grants, revoked, issued>>
localVars == <<args, tokenStatus, newToken>>
outerVars == <<boot, gmailClient, draft>>
handlerVars == <<storeUp, storeVars, pending, serverVars, inflight, calls, pc, localVars,
                 sent, hist>>

\* ------------------------------------------------------------- data model

\* No credential: the record the store holds for an account without one.
NoToken == [access |-> 0, refresh |-> 0, expired |-> FALSE, scope |-> {}]

Credential(access, refresh, expired, scope) ==
  [access |-> access, refresh |-> refresh, expired |-> expired, scope |-> scope]

NoArgs == [name |-> "none", email |-> "none",
           meta |-> [category |-> "", description |-> ""],
           required_scopes |-> {}, auth_code |-> NoCode]

NoStatus == [valid |-> FALSE, token |-> NoToken, reason |-> "not called"]

RegisteredEmails(reg) == {reg[i].email : i \in 1..Len(reg)}

\* Mutant of InitOrder: the Gmail module is initialised first.
InitOrder_GmailFirst == <<"gmail", "account", "calendar">>

\* index.ts 475-477: the modules run() initialises, in its order.
InitOrder == <<"account", "gmail", "calendar">>

\* run() has not been called yet.
Constructed == [pc |-> "constructed", ready |-> <<>>]

\* run() has returned: every module is initialised and the server is
\* connected to its transport.
Running == [pc |-> "running", ready |-> InitOrder]

\* DraftService outcomes and its state when no operation has been invoked.
NoOutcome == [kind |-> "none", value |-> "", message |-> "", code |-> "", resolution |-> ""]

\* data of a request: whether it is there and the number of its attachments.
NoData == [present |-> FALSE, attachments |-> 0]

DraftData(n) == [present |-> TRUE, attachments |-> n]

\* "absent" stands for a draftId that is not in the request.
NoParams == [action |-> "none", draftId |-> "absent", data |-> NoData]

NoDraft == [pc |-> "idle", via |-> "none", params |-> NoParams, op |-> "none",
            api |-> "none", left |-> 0, got |-> 0, calls |-> {}, outcome |-> NoOutcome]

\* --------------------------------------------- account manager (from spec)

\* Mutant of isSatisfied: one required scope that is granted is enough.
isSatisfied_AnyGranted(granted, required) == \E s \in required : s \in granted

\* Scope Reconciler: required is a subset of granted, by exact string equality.
isSatisfied(granted, required) == \A s \in required : s \in granted

\* Account Registry register: creates the account if absent, otherwise leaves
\* the existing record unchanged (first registration wins).
validateAccount(reg, email, meta, time) ==
  IF email \in RegisteredEmails(reg)
  THEN reg
  ELSE Append(reg, [email |-> email, category |-> meta.category,
                    description |-> meta.description, created |-> time])

\* validate's checks on the stored credential, in the order the specification
\* gives them: absent, scopes insufficient, access token expired.
validateToken(store, email, required) ==
  LET t == store[email] IN
  IF t = NoToken
  THEN [valid |-> FALSE, token |-> NoToken, reason |-> "no credential"]
  ELSE IF ~isSatisfied(t.scope, required)
  THEN [valid |-> FALSE, token |-> NoToken, reason |-> "insufficient scope"]
  ELSE IF t.expired
  THEN [valid |-> FALSE, token |-> t, reason |-> "Token expired"]
  ELSE [valid |-> TRUE, token |-> t, reason |-> ""]

\* Token Store put: a later put fully replaces the record.
saveToken(store, email, token) == [store EXCEPT ![email] = token]

\* Account Registry remove: the registry without the account's record.
RemoveFrom(reg, email) ==
  LET keep == {i \in 1..Len(reg) : reg[i].email # email}
      F[i \in 0..Len(reg)] ==
        IF i = 0 THEN <<>>
        ELSE IF i \in keep THEN Append(F[i-1], reg[i]) ELSE F[i-1]
  IN F[Len(reg)]

\* revoke: deletes the credential and the account record.
removeAccount(reg, store, email) ==
  [registry |-> RemoveFrom(reg, email), tokens |-> [store EXCEPT ![email] = NoToken]]

\* list: the accounts in insertion order, each with a credential summary that
\* holds no token value.
listAccounts(reg, store) ==
  [i \in 1..Len(reg) |->
     [email |-> reg[i].email, category |-> reg[i].category,
      description |-> reg[i].description,
      authenticated |-> store[reg[i].email] # NoToken,
      scope |-> store[reg[i].email].scope]]

GrantScope(gr, rt) == (CHOOSE g \in gr : g.rt = rt).scope

\* ------------------------------------------------------------------ errors

AccountErr(kind, msg) ==
  [class |-> "AccountError", code |-> kind, message |-> msg, hasResolution |-> TRUE]

ExchangeError == AccountErr("ExchangeError", "code invalid, expired or already used")
RefreshRejected == AccountErr("RefreshRejected", "refresh token invalid or revoked")
TransientRefreshError == AccountErr("TransientRefreshError", "authorization server unreachable")
StoreUnavailable == AccountErr("StoreUnavailable", "token store unavailable")

\* Errors the Gmail and calendar services and the dispatcher itself raise.
\* GmailError's resolution is optional (draft.ts 329-332 gives none).
OtherErrors ==
  {[class |-> "GmailError", code |-> "INVALID_PARAMS", message |-> "Draft data is required",
    hasResolution |-> FALSE],
   [class |-> "CalendarError", code |-> "FETCH_ERROR", message |-> "Failed to get events",
    hasResolution |-> TRUE],
   [class |-> "Error", code |-> "", message |-> "socket hang up", hasResolution |-> FALSE],
   [class |-> "NotAnError", code |-> "", message |-> "", hasResolution |-> FALSE]}

UnknownTool == [class |-> "Error", code |-> "", message |-> "Unknown tool", hasResolution |-> FALSE]

\* index.ts 452-466.  The error's code is not copied into the response.
formatErrorResponse(error) ==
  IF error.class \in {"AccountError", "GmailError", "CalendarError"}
  THEN [isError |-> TRUE,
        keys |-> {"status", "error"} \cup
                 (IF error.hasResolution THEN {"resolution"} ELSE {}),
        status |-> "error", text |-> error.message, url |-> {}, list |-> <<>>]
  ELSE [isError |-> TRUE, keys |-> {"status", "error", "resolution"},
        status |-> "error",
        text |-> IF error.class = "Error" THEN error.message
                 ELSE "Unknown error occurred",
        url |-> {}, list |-> <<>>]

Reply(status, text) ==
  [isError |-> FALSE, keys |-> {"status", "message"}, status |-> status,
   text |-> text, url |-> {}, list |-> <<>>]

\* ------------------------------------------------------------------- Init

\* The token store and the registry are durable: the server starts on what an
\* earlier run left.  Persisted credentials were issued by the authorization
\* server, which knows their grants.
InitCredential(email) ==
  IF email = "a@x.com" THEN Credential(1, 2, FALSE, {"read"})
  ELSE Credential(3, 4, FALSE, {"read"})

\* The last serial the server had issued when the persisted credentials were made.
InitIssued == InitCredential("b@x.com").refresh

InitServer ==
  /\ \E known \in SUBSET Emails, authed \in SUBSET Emails :
       /\ authed \subseteq known
       /\ "b@x.com" \in authed
       /\ registry =
            (IF "a@x.com" \in known
             THEN <<[email |-> "a@x.com", category |-> "work",
                     description |-> "d1", created |-> 0]>>
             ELSE <<>>) \o
            (IF "b@x.com" \in known
             THEN <<[email |-> "b@x.com", category |-> "personal",
                     description |-> "d2", created |-> 0]>>
             ELSE <<>>)
       /\ tokens = [e \in Emails |->
                      IF e \in authed
                      THEN InitCredential(e)
                      ELSE NoToken]
       /\ grants = {[rt |-> InitCredential(e).refresh, scope |-> InitCredential(e).scope]
                      : e \in authed}
  /\ codes = [c \in Codes |-> [st |-> "unissued", scope |-> {}]]
  /\ revoked = {}
  /\ issued = InitIssued
  /\ inflight = {}
  /\ calls = 0
  /\ pc = [p \in Procs |-> "idle"]
  /\ args = [p \in Procs |-> NoArgs]
  /\ tokenStatus = [p \in Procs |-> NoStatus]
  /\ newToken = [p \in Procs |-> NoToken]
  /\ storeUp = TRUE
  /\ sent = {}
  /\ hist = [refreshReqs |-> [e \in Emails |-> 0], rejected |-> {}, reused |-> {},
             absentForget |-> FALSE, abandoned |-> {}]
  /\ gmailClient = FALSE
  /\ draft = NoDraft

\* The server at work: run() has connected it to its transport.
Init == InitServer /\ pending = {} /\ boot = Running

\* A call is taken by the first handler that serves none.  Requests come
\* over the transport, so none comes before run() has connected (index.ts
\* 486-488).
CanStart(p) ==
  /\ boot.pc = "running"
  /\ calls < MaxCalls
  /\ pc[p] = "idle"
  /\ \A q \in Procs : q < p => pc[q] # "idle"

Sent(a, r) == [args |-> a, resp |-> r]

\* Handler p returns r for request a: the response goes to the caller and the
\* handler's locals die.
Answer(p, a, r) ==
  /\ pc' = [pc EXCEPT ![p] = "idle"]
  /\ sent' = {Sent(a, r)}
  /\ args' = [args EXCEPT ![p] = NoArgs]
  /\ tokenStatus' = [tokenStatus EXCEPT ![p] = NoStatus]
  /\ newToken' = [newToken EXCEPT ![p] = NoToken]

Finish(p, r) == Answer(p, [args[p] EXCEPT !.meta = NoArgs.meta], r)

\* ------------------------------------------ use_google_account (297-366)

\* The registry with the category and description of email's record replaced.
Overwritten(reg, email, meta) ==
  [i \in 1..Len(reg) |->
     IF reg[i].email = email
     THEN [reg[i] EXCEPT !.category = meta.category, !.description = meta.description]
     ELSE reg[i]]

\* Mutant of UseRegister: the handler brings the record up to date with the
\* category and description of the call.
UseRegister_Overwrite(p, email, meta, required, code) ==
  /\ CanStart(p)
  /\ calls' = calls + 1
  /\ args' = [args EXCEPT ![p] = [name |-> "use_google_account", email |-> email,
                                   meta |-> meta, required_scopes |-> required,
                                   auth_code |-> code]]
  /\ registry' = Overwritten(validateAccount(registry, email, meta, calls + 1),
                             email, meta)
  /\ pc' = [pc EXCEPT ![p] = "validateToken"]
  /\ sent' = {}
  /\ UNCHANGED <<outerVars, storeUp, tokens, pending, serverVars, inflight, tokenStatus, newToken, hist>>

\* Mutant of UseRegister: a record is added for every call.
UseRegister_Append(p, email, meta, required, code) ==
  /\ CanStart(p)
  /\ calls' = calls + 1
  /\ args' = [args EXCEPT ![p] = [name |-> "use_google_account", email |-> email,
                                   meta |-> meta, required_scopes |-> required,
                                   auth_code |-> code]]
  /\ registry' = Append(registry, [email |-> email, category |-> meta.category,
                                   description |-> meta.description,
                                   created |-> calls + 1])
  /\ pc' = [pc EXCEPT ![p] = "validateToken"]
  /\ sent' = {}
  /\ UNCHANGED <<outerVars, storeUp, tokens, pending, serverVars, inflight, tokenStatus, newToken, hist>>

\* index.ts 297-302: the request arrives and validateAccount registers the
\* account.  The creation time of a new record is the ordinal of the call.
UseRegister(p, email, meta, required, code) ==
  /\ CanStart(p)
  /\ calls' = calls + 1
  /\ args' = [args EXCEPT ![p] = [name |-> "use_google_account", email |-> email,
                                   meta |-> meta, required_scopes |-> required,
                                   auth_code |-> code]]
  /\ registry' = validateAccount(registry, email, meta, calls + 1)
  /\ pc' = [pc EXCEPT ![p] = "validateToken"]
  /\ sent' = {}
  /\ UNCHANGED <<outerVars, storeUp, tokens, pending, serverVars, inflight, tokenStatus, newToken, hist>>

\* index.ts 307-308, 323, 337: where the handler goes on validateToken's
\* answer when it does not return at once.
BranchOn(st, auth_code) ==
  IF st.token # NoToken /\ st.reason = "Token expired"
  THEN "refreshToken"
  ELSE IF auth_code # NoCode
  THEN "getTokenFromCode"
  ELSE "generateAuthUrl"

\* Mutant of UseValidateToken: the auth_code is looked at before the answer
\* of validateToken, so a call that brings a code exchanges it even when the
\* credential is valid.
UseValidateToken_CodeFirst(p) ==
  /\ pc[p] = "validateToken"
  /\ storeUp
  /\ LET st == validateToken(tokens, args[p].email, args[p].required_scopes) IN
       IF args[p].auth_code = NoCode /\ ~(~st.valid \/ st.token = NoToken)
       THEN Finish(p, Reply("success",
                            "Account is already authenticated with required scopes"))
       ELSE /\ tokenStatus' = [tokenStatus EXCEPT ![p] = st]
            /\ pc' = [pc EXCEPT ![p] =
                 IF args[p].auth_code # NoCode THEN "getTokenFromCode"
                 ELSE BranchOn(st, args[p].auth_code)]
            /\ args' = [args EXCEPT ![p].meta = NoArgs.meta]
            /\ sent' = {}
            /\ UNCHANGED newToken
  /\ UNCHANGED <<outerVars, storeUp, storeVars, pending, serverVars, inflight, calls, hist>>

\* index.ts 305-307, 357-365: validateToken and the handler's test of its
\* answer.  category and description were for validateAccount alone and are
\* read no more.
UseValidateToken(p) ==
  /\ pc[p] = "validateToken"
  /\ storeUp
  /\ LET st == validateToken(tokens, args[p].email, args[p].required_scopes) IN
       IF ~(~st.valid \/ st.token = NoToken)
       THEN Finish(p, Reply("success",
                            "Account is already authenticated with required scopes"))
       ELSE /\ tokenStatus' = [tokenStatus EXCEPT ![p] = st]
            /\ pc' = [pc EXCEPT ![p] = BranchOn(st, args[p].auth_code)]
            /\ args' = [args EXCEPT ![p].meta = NoArgs.meta]
            /\ sent' = {}
            /\ UNCHANGED newToken
  /\ UNCHANGED <<outerVars, storeUp, storeVars, pending, serverVars, inflight, calls, hist>>

\* index.ts 309: refreshToken(tokenStatus.token.refresh_token).  The Refresh
\* Engine sends a request unless one is in flight for that refresh token, in
\* which case the caller awaits that one.
UseRefreshToken(p) ==
  /\ pc[p] = "refreshToken"
  /\ LET rt == tokenStatus[p].token.refresh
         e == args[p].email IN
       IF rt \in inflight
       THEN UNCHANGED <<inflight, hist>>
       ELSE /\ inflight' = inflight \cup {rt}
            /\ hist' = [hist EXCEPT !.refreshReqs[e] =
                          IF @ < MaxCount THEN @ + 1 ELSE @]
  /\ pc' = [pc EXCEPT ![p] = "awaitRefresh"]
  /\ sent' = {}
  /\ UNCHANGED <<outerVars, storeUp, storeVars, pending, serverVars, calls, localVars>>

Waiters(rt) == {p \in Procs : pc[p] = "awaitRefresh" /\ tokenStatus[p].token.refresh = rt}

\* The credential a successful refresh yields: a new access token and expiry,
\* the refresh token kept unless the server sent a new one (rotatedTo # 0),
\* the scopes of the grant.
Refreshed(access, rt, rotatedTo, scope) ==
  Credential(access, IF rotatedTo = 0 THEN rt ELSE rotatedTo, FALSE, scope)

\* Mutant of CatchRefreshError: a failed refresh is taken for the end of the
\* credential, which is deleted.
CatchRefreshError_Forget(store, emails) ==
  [e \in Emails |-> IF e \in emails THEN NoToken ELSE store[e]]

\* index.ts 442-448: the catch that receives a failed refresh answers the
\* error and calls nothing: the credentials of the accounts whose refresh
\* failed (emails) stay as stored, and no second request is made.
CatchRefreshError(store, emails) == store

\* The authorization server answers the refresh request and the Refresh
\* Engine settles the promise every waiting handler awaits.  outcome: "ok",
\* "rotated" (a new refresh token comes with the access token), "rejected",
\* "transient".  A failure is thrown into the handler, whose catch
\* (index.ts 442-448) turns it into the response.
RefreshSettles(rt, outcome) ==
  /\ rt \in inflight
  /\ outcome \in (IF rt \in revoked THEN {"rejected"} ELSE {"ok", "rotated"})
                   \cup {"transient"}
  /\ inflight' = inflight \ {rt}
  /\ LET w == Waiters(rt)
         scope == GrantScope(grants, rt) IN
       CASE outcome = "ok" ->
              /\ issued' = issued + 1
              /\ newToken' = [p \in Procs |->
                   IF p \in w THEN Refreshed(issued + 1, rt, 0, scope)
                   ELSE newToken[p]]
              /\ pc' = [p \in Procs |-> IF p \in w THEN "saveRefreshed" ELSE pc[p]]
              /\ sent' = {}
              /\ UNCHANGED <<tokens, grants, revoked, tokenStatus, args, hist>>
         [] outcome = "rotated" ->
              /\ issued' = issued + 2
              /\ grants' = grants \cup {[rt |-> issued + 2, scope |-> scope]}
              /\ revoked' = revoked \cup {rt}
              /\ newToken' = [p \in Procs |->
                   IF p \in w THEN Refreshed(issued + 1, rt, issued + 2, scope)
                   ELSE newToken[p]]
              /\ pc' = [p \in Procs |-> IF p \in w THEN "saveRefreshed" ELSE pc[p]]
              /\ sent' = {}
              /\ UNCHANGED <<tokens, tokenStatus, args, hist>>
         [] OTHER ->
              /\ tokens' = CatchRefreshError(tokens, {args[p].email : p \in w})
              /\ pc' = [p \in Procs |-> IF p \in w THEN "idle" ELSE pc[p]]
              /\ sent' = {Sent(args[p],
                               formatErrorResponse(IF outcome = "rejected"
                                                   THEN RefreshRejected
                                                   ELSE TransientRefreshError))
                            : p \in w}
              /\ tokenStatus' = [p \in Procs |->
                   IF p \in w THEN NoStatus ELSE tokenStatus[p]]
              /\ args' = [p \in Procs |-> IF p \in w THEN NoArgs ELSE args[p]]
              /\ hist' = [hist EXCEPT
                   !.refreshReqs = [e \in Emails |->
                      IF \E p \in w : args[p].email = e THEN 0 ELSE @[e]],
                   !.rejected = IF outcome = "rejected" THEN @ \cup {rt} ELSE @]
              /\ UNCHANGED <<issued, grants, revoked, newToken>>
  /\ UNCHANGED <<outerVars, storeUp, registry, pending, codes, calls>>

\* Mutant of UseSaveRefreshed: the answer is given without saveToken.
UseSaveRefreshed_NoSave(p) ==
  /\ pc[p] = "saveRefreshed"
  /\ storeUp
  /\ Finish(p, Reply("refreshing",
                     "Token refreshed successfully, please retry the request"))
  /\ UNCHANGED <<outerVars, storeUp, storeVars, pending, serverVars, inflight, calls, hist>>

\* Mutant of UseSaveRefreshed: only the fields of the server's response are
\* saved, so the refresh token is lost.
UseSaveRefreshed_DropRefresh(p) ==
  /\ pc[p] = "saveRefreshed"
  /\ storeUp
  /\ tokens' = saveToken(tokens, args[p].email, [newToken[p] EXCEPT !.refresh = 0])
  /\ Finish(p, Reply("refreshing",
                     "Token refreshed successfully, please retry the request"))
  /\ UNCHANGED <<outerVars, storeUp, registry, pending, serverVars, inflight, calls, hist>>

\* Mutant of UseSaveRefreshed: a handler whose caller has gone does not save.
UseSaveRefreshed_SkipIfAbandoned(p) ==
  /\ pc[p] = "saveRefreshed"
  /\ storeUp
  /\ tokens' = IF p \in hist.abandoned THEN tokens
               ELSE saveToken(tokens, args[p].email, newToken[p])
  /\ Finish(p, Reply("refreshing",
                     "Token refreshed successfully, please retry the request"))
  /\ UNCHANGED <<outerVars, storeUp, registry, pending, serverVars, inflight, calls, hist>>

\* index.ts 310-320: saveToken(args.email, newToken), then the answer.
UseSaveRefreshed(p) ==
  /\ pc[p] = "saveRefreshed"
  /\ storeUp
  /\ tokens' = saveToken(tokens, args[p].email, newToken[p])
  /\ Finish(p, Reply("refreshing",
                     "Token refreshed successfully, please retry the request"))
  /\ UNCHANGED <<outerVars, storeUp, registry, pending, serverVars, inflight, calls, hist>>

\* exchangeCode succeeds for a code the server has issued and not yet
\* exchanged.
Exchangeable(cs, c) == c \in Codes /\ cs[c].st = "issued"

\* Mutant of UseGetTokenFromCode: a failed exchange is swallowed and the
\* handler goes on to saveToken with no token.
UseGetTokenFromCode_Swallow(p) ==
  /\ pc[p] = "getTokenFromCode"
  /\ LET c == args[p].auth_code IN
       IF Exchangeable(codes, c)
       THEN /\ codes' = [codes EXCEPT ![c].st = "consumed"]
            /\ issued' = issued + 2
            /\ grants' = grants \cup {[rt |-> issued + 2, scope |-> codes[c].scope]}
            /\ pending' = pending \ {codes[c].scope}
            /\ newToken' = [newToken EXCEPT ![p] =
                 Credential(issued + 1, issued + 2, FALSE, codes[c].scope)]
            /\ UNCHANGED hist
       ELSE /\ newToken' = [newToken EXCEPT ![p] = NoToken]
            /\ hist' = [hist EXCEPT !.reused =
                          IF c \in Codes /\ codes[c].st = "consumed"
                          THEN @ \cup {c} ELSE @]
            /\ UNCHANGED <<codes, issued, grants, pending>>
  /\ pc' = [pc EXCEPT ![p] = "saveExchanged"]
  /\ sent' = {}
  /\ UNCHANGED <<outerVars, storeUp, storeVars, revoked, inflight, calls, tokenStatus, args>>

\* index.ts 324: getTokenFromCode(args.auth_code).  The authorization server
\* exchanges a code once; an unknown or used code fails with ExchangeError,
\* which the handler's catch (index.ts 442-448) answers.
UseGetTokenFromCode(p) ==
  /\ pc[p] = "getTokenFromCode"
  /\ LET c == args[p].auth_code IN
       IF Exchangeable(codes, c)
       THEN /\ codes' = [codes EXCEPT ![c].st = "consumed"]
            /\ issued' = issued + 2
            /\ grants' = grants \cup {[rt |-> issued + 2, scope |-> codes[c].scope]}
            /\ pending' = pending \ {codes[c].scope}
            /\ newToken' = [newToken EXCEPT ![p] =
                 Credential(issued + 1, issued + 2, FALSE, codes[c].scope)]
            /\ pc' = [pc EXCEPT ![p] = "saveExchanged"]
            /\ sent' = {}
            /\ UNCHANGED <<tokenStatus, args, hist>>
       ELSE /\ Finish(p, formatErrorResponse(ExchangeError))
            /\ hist' = [hist EXCEPT !.reused =
                          IF c \in Codes /\ codes[c].st = "consumed"
                          THEN @ \cup {c} ELSE @]
            /\ UNCHANGED <<codes, issued, grants, pending>>
  /\ UNCHANGED <<outerVars, storeUp, storeVars, revoked, inflight, calls>>

\* index.ts 324 when the token response of the authorization server carries
\* no scope list: the scope of the new credential falls back to a Pending
\* Authorization.  getTokenFromCode is given the code and nothing else
\* (the tool has no parameter for the state value of the consent URL, index.ts
\* 61-83), so the pending authorization the code belongs to is not among its
\* inputs: the fallback is one of those pending.
UseGetTokenFromCodeUnscoped(p) ==
  /\ pc[p] = "getTokenFromCode"
  /\ LET c == args[p].auth_code IN
       /\ Exchangeable(codes, c)
       /\ \E s \in pending :
            /\ pending' = pending \ {s}
            /\ newToken' = [newToken EXCEPT ![p] =
                 Credential(issued + 1, issued + 2, FALSE, s)]
       /\ codes' = [codes EXCEPT ![c].st = "consumed"]
       /\ issued' = issued + 2
       /\ grants' = grants \cup {[rt |-> issued + 2, scope |-> codes[c].scope]}
  /\ pc' = [pc EXCEPT ![p] = "saveExchanged"]
  /\ sent' = {}
  /\ UNCHANGED <<outerVars, storeUp, storeVars, revoked, inflight, calls, tokenStatus, args, hist>>

\* Mutant of UseSaveExchanged: the new credential is merged into the stored
\* one, whose scopes are kept.
UseSaveExchanged_Merge(p) ==
  /\ pc[p] = "saveExchanged"
  /\ storeUp
  /\ tokens' = saveToken(tokens, args[p].email,
                         [newToken[p] EXCEPT !.scope = @ \cup tokens[args[p].email].scope])
  /\ Finish(p, Reply("success",
                     "Authentication successful! Token saved. Please retry your request."))
  /\ hist' = [hist EXCEPT !.refreshReqs[args[p].email] = 0]
  /\ UNCHANGED <<outerVars, storeUp, registry, pending, serverVars, inflight, calls>>

\* index.ts 325-334: saveToken(args.email, tokenData), then the answer.
UseSaveExchanged(p) ==
  /\ pc[p] = "saveExchanged"
  /\ storeUp
  /\ tokens' = saveToken(tokens, args[p].email, newToken[p])
  /\ Finish(p, Reply("success",
                     "Authentication successful! Token saved. Please retry your request."))
  /\ hist' = [hist EXCEPT !.refreshReqs[args[p].email] = 0]
  /\ UNCHANGED <<outerVars, storeUp, registry, pending, serverVars, inflight, calls>>

\* index.ts 337: the scopes the handler asks a consent URL for.
UrlScopes(store, email, required) == required

\* Mutant of UseGenerateAuthUrl: the credential that did not pass validation
\* is deleted when the consent URL is issued.
UseGenerateAuthUrl_DropCredential(p) ==
  /\ pc[p] = "generateAuthUrl"
  /\ LET url == UrlScopes(tokens, args[p].email, args[p].required_scopes) IN
       /\ pending' = pending \cup {url}
       /\ Finish(p, [isError |-> FALSE,
                     keys |-> {"status", "auth_url", "message", "instructions"},
                     status |-> "auth_required",
                     text |-> "Please complete authentication:",
                     url |-> url, list |-> <<>>])
  /\ tokens' = [tokens EXCEPT ![args[p].email] = NoToken]
  /\ UNCHANGED <<outerVars, storeUp, registry, serverVars, inflight, calls, hist>>

\* index.ts 337-354: generateAuthUrl(args.required_scopes) and the
\* auth_required answer that carries the URL.
UseGenerateAuthUrl(p) ==
  /\ pc[p] = "generateAuthUrl"
  /\ LET url == UrlScopes(tokens, args[p].email, args[p].required_scopes) IN
       /\ pending' = pending \cup {url}
       /\ Finish(p, [isError |-> FALSE,
                     keys |-> {"status", "auth_url", "message", "instructions"},
                     status |-> "auth_required",
                     text |-> "Please complete authentication:",
                     url |-> url, list |-> <<>>])
  /\ UNCHANGED <<outerVars, storeUp, storeVars, serverVars, inflight, calls, hist>>

\* ---------------------------------------- forget_google_account (368-381)

\* Mutant of ForgetGoogleAccount: the credential is deleted and the account
\* record is left in the registry.
ForgetGoogleAccount_TokenOnly(p, email) ==
  /\ CanStart(p)
  /\ storeUp
  /\ calls' = calls + 1
  /\ tokens' = removeAccount(registry, tokens, email).tokens
  /\ hist' = [hist EXCEPT !.refreshReqs[email] = 0,
                          !.absentForget = /\ email \notin RegisteredEmails(registry)
                                           /\ tokens[email] = NoToken]
  /\ Answer(p, [NoArgs EXCEPT !.name = "forget_google_account", !.email = email],
            Reply("success", "Successfully removed account and deleted associated tokens"))
  /\ UNCHANGED <<outerVars, storeUp, registry, pending, serverVars, inflight>>

\* Mutant of ForgetGoogleAccount: every account is removed.
ForgetGoogleAccount_All(p, email) ==
  /\ CanStart(p)
  /\ storeUp
  /\ calls' = calls + 1
  /\ registry' = <<>>
  /\ tokens' = [e \in Emails |-> NoToken]
  /\ hist' = [hist EXCEPT !.refreshReqs[email] = 0,
                          !.absentForget = /\ email \notin RegisteredEmails(registry)
                                           /\ tokens[email] = NoToken]
  /\ Answer(p, [NoArgs EXCEPT !.name = "forget_google_account", !.email = email],
            Reply("success", "Successfully removed account and deleted associated tokens"))
  /\ UNCHANGED <<outerVars, storeUp, pending, serverVars, inflight>>

\* Mutant of ForgetGoogleAccount: an account that is not registered is
\* answered with an error.
ForgetGoogleAccount_NotFound(p, email) ==
  /\ CanStart(p)
  /\ storeUp
  /\ calls' = calls + 1
  /\ registry' = removeAccount(registry, tokens, email).registry
  /\ tokens' = removeAccount(registry, tokens, email).tokens
  /\ hist' = [hist EXCEPT !.refreshReqs[email] = 0,
                          !.absentForget = /\ email \notin RegisteredEmails(registry)
                                           /\ tokens[email] = NoToken]
  /\ Answer(p, [NoArgs EXCEPT !.name = "forget_google_account", !.email = email],
            IF email \in RegisteredEmails(registry)
            THEN Reply("success", "Successfully removed account and deleted associated tokens")
            ELSE formatErrorResponse(AccountErr("NotRegistered", "Account not found")))
  /\ UNCHANGED <<outerVars, storeUp, pending, serverVars, inflight>>

\* index.ts 368-381: removeAccount(email), then the answer.
ForgetGoogleAccount(p, email) ==
  /\ CanStart(p)
  /\ storeUp
  /\ calls' = calls + 1
  /\ registry' = removeAccount(registry, tokens, email).registry
  /\ tokens' = removeAccount(registry, tokens, email).tokens
  /\ hist' = [hist EXCEPT !.refreshReqs[email] = 0,
                          !.absentForget = /\ email \notin RegisteredEmails(registry)
                                           /\ tokens[email] = NoToken]
  /\ Answer(p, [NoArgs EXCEPT !.name = "forget_google_account", !.email = email],
            Reply("success", "Successfully removed account and deleted associated tokens"))
  /\ UNCHANGED <<outerVars, storeUp, pending, serverVars, inflight>>

\* ----------------------------------------- list_google_accounts (287-295)

\* Mutant of ListResponse: the stored credential of every account is
\* serialised along with its record.
ListResponse_WithTokens(reg, store) ==
  [isError |-> FALSE, keys |-> {}, status |-> "list", text |-> "", url |-> {},
   list |-> [i \in 1..Len(reg) |->
               [email |-> reg[i].email, category |-> reg[i].category,
                description |-> reg[i].description,
                authenticated |-> store[reg[i].email] # NoToken,
                scope |-> store[reg[i].email].scope,
                access |-> store[reg[i].email].access,
                refresh |-> store[reg[i].email].refresh]]]

\* index.ts 289-294: the answer is the JSON text of what listAccounts()
\* returned, nothing added and nothing left out.
ListResponse(reg, store) ==
  [isError |-> FALSE, keys |-> {}, status |-> "list", text |-> "", url |-> {},
   list |-> listAccounts(reg, store)]

\* index.ts 287-295: listAccounts(), answered as JSON.
ListGoogleAccounts(p) ==
  /\ CanStart(p)
  /\ storeUp
  /\ calls' = calls + 1
  /\ Answer(p, [NoArgs EXCEPT !.name = "list_google_accounts"],
            ListResponse(registry, tokens))
  /\ UNCHANGED <<outerVars, storeUp, storeVars, pending, serverVars, inflight, hist>>

\* ---------------------- Gmail and calendar tools, unknown tool (383-448)

\* index.ts 383-437: the service call throws, and the catch answers.
OtherToolFails(p, tool, error) ==
  /\ CanStart(p)
  /\ calls' = calls + 1
  /\ Answer(p, [NoArgs EXCEPT !.name = tool], formatErrorResponse(error))
  /\ UNCHANGED <<outerVars, storeUp, storeVars, pending, serverVars, inflight, hist>>

\* index.ts 439-440: default branch of the switch.
UnknownToolCall(p) ==
  /\ CanStart(p)
  /\ calls' = calls + 1
  /\ Answer(p, [NoArgs EXCEPT !.name = "no_such_tool"], formatErrorResponse(UnknownTool))
  /\ UNCHANGED <<outerVars, storeUp, storeVars, pending, serverVars, inflight, hist>>

\* ------------------------------------------- token store I/O failures

\* The handler steps that read or write the token store: validateToken
\* (index.ts 305) and the two saveToken calls (index.ts 310, 325).
StoreSteps == {"validateToken", "saveRefreshed", "saveExchanged"}

\* Mutant of TokenStoreFails: a failed read is taken for an absent credential
\* and the handler goes on as if validateToken had answered "no credential".
TokenStoreFails_AsAbsent(p) ==
  /\ ~storeUp
  /\ pc[p] \in StoreSteps
  /\ IF pc[p] = "validateToken"
     THEN /\ tokenStatus' = [tokenStatus EXCEPT ![p] =
               [valid |-> FALSE, token |-> NoToken, reason |-> "no credential"]]
          /\ pc' = [pc EXCEPT ![p] = BranchOn(tokenStatus'[p], args[p].auth_code)]
          /\ args' = [args EXCEPT ![p].meta = NoArgs.meta]
          /\ sent' = {}
          /\ UNCHANGED newToken
     ELSE Finish(p, formatErrorResponse(StoreUnavailable))
  /\ UNCHANGED <<outerVars, storeUp, storeVars, pending, serverVars, inflight, calls, hist>>

\* index.ts 305, 310, 325 with 442-448: the store operation the handler awaits
\* fails with StoreUnavailable, which is thrown into the handler; its catch
\* answers the error and the handler ends.
TokenStoreFails(p) ==
  /\ ~storeUp
  /\ pc[p] \in StoreSteps
  /\ Finish(p, formatErrorResponse(StoreUnavailable))
  /\ UNCHANGED <<outerVars, storeUp, storeVars, pending, serverVars, inflight, calls, hist>>

\* index.ts 288, 370 with 442-448: listAccounts or removeAccount fails with
\* StoreUnavailable and the catch answers the error.
EntryStoreFails(p, tool, email) ==
  /\ CanStart(p)
  /\ ~storeUp
  /\ calls' = calls + 1
  /\ Answer(p, [NoArgs EXCEPT !.name = tool, !.email = email],
            formatErrorResponse(StoreUnavailable))
  /\ UNCHANGED <<outerVars, storeUp, storeVars, pending, serverVars, inflight, hist>>

\* ------------------------------------------------------------ environment

\* The caller of the call handler p serves gives up waiting (a timeout
\* upstream) while the refresh is in flight.  The handler (index.ts 284) takes
\* no cancellation signal, so nothing it does depends on this.
Abandon(p) ==
  /\ pc[p] = "awaitRefresh"
  /\ p \notin hist.abandoned
  /\ hist' = [hist EXCEPT !.abandoned = @ \cup {p}]
  /\ sent' = {}
  /\ UNCHANGED <<outerVars, storeUp, storeVars, pending, serverVars, inflight, calls, pc, localVars>>

\* The storage under the token store stops answering, and answers again.
StoreOutage ==
  /\ storeUp
  /\ storeUp' = FALSE
  /\ sent' = {}
  /\ UNCHANGED <<outerVars, storeVars, pending, serverVars, inflight, calls, pc, localVars,
                 hist>>

StoreRecovers ==
  /\ ~storeUp
  /\ storeUp' = TRUE
  /\ sent' = {}
  /\ UNCHANGED <<outerVars, storeVars, pending, serverVars, inflight, calls, pc, localVars,
                 hist>>

\* Time passes: the access token of a stored credential reaches its expiry.
Expire(email) ==
  /\ tokens[email] # NoToken
  /\ ~tokens[email].expired
  /\ tokens' = [tokens EXCEPT ![email].expired = TRUE]
  /\ hist' = [hist EXCEPT !.refreshReqs[email] = 0]
  /\ sent' = {}
  /\ UNCHANGED <<outerVars, storeUp, registry, pending, serverVars, inflight, calls, pc, localVars>>

\* The user withdraws a grant at the authorization server.
RevokeAtServer(rt) ==
  /\ rt \in {g.rt : g \in grants} \ revoked
  /\ revoked' = revoked \cup {rt}
  /\ sent' = {}
  /\ UNCHANGED <<outerVars, storeUp, storeVars, pending, codes, grants, issued, inflight, calls, pc,
                 localVars, hist>>

\* The user opens a consent URL (its address is the same whenever it is
\* built for the same scopes) and is given an authorization code for the
\* scopes of that URL.
UserConsents(url, c) ==
  /\ codes[c].st = "unissued"
  /\ codes' = [codes EXCEPT ![c] = [st |-> "issued", scope |-> url]]
  /\ sent' = {}
  /\ UNCHANGED <<outerVars, storeUp, storeVars, pending, grants, revoked, issued, inflight, calls, pc,
                 localVars, hist>>

\* ------------------------------------------------------ run() (468-497)

\* index.ts 468-475: run() is called and awaits the initialisation of the
\* first module.
RunStarts ==
  /\ boot.pc = "constructed"
  /\ boot' = [boot EXCEPT !.pc = "initializing"]
  /\ sent' = {}
  /\ UNCHANGED <<gmailClient, draft, storeUp, storeVars, pending, serverVars, inflight,
                 calls, pc, localVars, hist>>

\* index.ts 475-486: the awaited initialisation returns; run() awaits the
\* next module's, or, after the last, sets onerror and awaits connect.
ModuleInitialized ==
  /\ boot.pc = "initializing"
  /\ boot' = [boot EXCEPT !.pc = IF Len(boot.ready) + 1 = Len(InitOrder)
                                  THEN "connecting" ELSE "initializing",
                          !.ready = Append(@, InitOrder[Len(@) + 1])]
  /\ sent' = {}
  /\ UNCHANGED <<gmailClient, draft, storeUp, storeVars, pending, serverVars, inflight,
                 calls, pc, localVars, hist>>

\* index.ts 475-477 with 493-496: the awaited initialisation throws; the
\* catch rethrows and run() ends rejected (the process then exits, 514-517).
ModuleInitFails ==
  /\ boot.pc = "initializing"
  /\ boot' = [boot EXCEPT !.pc = "failed"]
  /\ sent' = {}
  /\ UNCHANGED <<gmailClient, draft, storeUp, storeVars, pending, serverVars, inflight,
                 calls, pc, localVars, hist>>

\* index.ts 486-489: connect returns and the server is running.
Connects ==
  /\ boot.pc = "connecting"
  /\ boot' = [boot EXCEPT !.pc = "running"]
  /\ sent' = {}
  /\ UNCHANGED <<gmailClient, draft, storeUp, storeVars, pending, serverVars, inflight,
                 calls, pc, localVars, hist>>

\* index.ts 489-496: connect throws; both catches rethrow.
ConnectFails ==
  /\ boot.pc = "connecting"
  /\ boot' = [boot EXCEPT !.pc = "failed"]
  /\ sent' = {}
  /\ UNCHANGED <<gmailClient, draft, storeUp, storeVars, pending, serverVars, inflight,
                 calls, pc, localVars, hist>>

\* ------------------------------ DraftService (modules/gmail/services/draft.ts)

\* action values of a manageDraft request; "archive" is one outside the five.
DraftActions == {"create", "read", "update", "delete", "send", "archive"}

\* draftId values of a request: missing, the empty string, an identifier.
DraftIds == {"absent", "", "d1"}

DraftDatas == {NoData} \cup {DraftData(n) : n \in 0..MaxAttachments}

DraftOps == {"createDraft", "listDrafts", "getDraft", "updateDraft", "deleteDraft",
             "sendDraft"}

\* !draftId: a missing draftId and the empty string are both falsy.
Falsy(draftId) == draftId \in {"absent", ""}

GmailErr(message, code, resolution) ==
  [kind |-> "error", value |-> "", message |-> message, code |-> code,
   resolution |-> resolution]

\* draft.ts 49-58, ensureClient: what it throws when no client is set.
ClientError ==
  GmailErr("Gmail client not initialized", "CLIENT_ERROR",
           "Please ensure the service is initialized")

\* What a failed call to Gmail, the attachment service or Drive throws.
ApiError == GmailErr("Request failed", "", "")

OpFailure ==
  [createDraft |-> [message |-> "Failed to create draft", code |-> "CREATE_ERROR"],
   listDrafts |-> [message |-> "Failed to list drafts", code |-> "LIST_ERROR"],
   getDraft |-> [message |-> "Failed to get draft", code |-> "GET_ERROR"],
   updateDraft |-> [message |-> "Failed to update draft", code |-> "UPDATE_ERROR"],
   deleteDraft |-> [message |-> "Failed to delete draft", code |-> "DELETE_ERROR"],
   sendDraft |-> [message |-> "Failed to send draft", code |-> "SEND_ERROR"]]

\* The catch of every operation (draft.ts 147-153, 173-179, 200-206, 296-302,
\* 314-320, 393-399): whatever was thrown inside the try, the operation throws
\* its own GmailError, with the message of what it caught as resolution.
WrapError(op, error) ==
  GmailErr(OpFailure[op].message, OpFailure[op].code, error.message)

Reject(error) == [op |-> "none", error |-> error]

Dispatch(op) == [op |-> op, error |-> NoOutcome]

\* Mutant of manageDraft: the switch dispatches without looking at draftId
\* and data.
manageDraft_NoChecks(params) ==
  CASE params.action = "create" -> Dispatch("createDraft")
    [] params.action = "read" ->
         IF Falsy(params.draftId) THEN Dispatch("listDrafts") ELSE Dispatch("getDraft")
    [] params.action = "update" -> Dispatch("updateDraft")
    [] params.action = "delete" -> Dispatch("deleteDraft")
    [] params.action = "send" -> Dispatch("sendDraft")
    [] OTHER ->
         Reject(GmailErr("Invalid action", "INVALID_PARAMS",
                         "Supported actions are: create, read, update, delete, send"))

\* draft.ts 323-376: the switch of manageDraft, which either throws or calls
\* one operation.
manageDraft(params) ==
  CASE params.action = "create" ->
         IF ~params.data.present
         THEN Reject(GmailErr("Draft data is required for create action",
                              "INVALID_PARAMS", ""))
         ELSE Dispatch("createDraft")
    [] params.action = "read" ->
         IF Falsy(params.draftId) THEN Dispatch("listDrafts") ELSE Dispatch("getDraft")
    [] params.action = "update" ->
         IF Falsy(params.draftId) \/ ~params.data.present
         THEN Reject(GmailErr("Draft ID and data are required for update action",
                              "INVALID_PARAMS", ""))
         ELSE Dispatch("updateDraft")
    [] params.action = "delete" ->
         IF Falsy(params.draftId)
         THEN Reject(GmailErr("Draft ID is required for delete action",
                              "INVALID_PARAMS", ""))
         ELSE Dispatch("deleteDraft")
    [] params.action = "send" ->
         IF Falsy(params.draftId)
         THEN Reject(GmailErr("Draft ID is required for send action",
                              "INVALID_PARAMS", ""))
         ELSE Dispatch("sendDraft")
    [] OTHER ->
         Reject(GmailErr("Invalid action", "INVALID_PARAMS",
                         "Supported actions are: create, read, update, delete, send"))

\* The Gmail API call each operation makes (draft.ts 127, 159, 185, 276, 308,
\* 381).
GmailCall ==
  [createDraft |-> "drafts.create", listDrafts |-> "drafts.list",
   getDraft |-> "drafts.get", updateDraft |-> "drafts.update",
   deleteDraft |-> "drafts.delete", sendDraft |-> "drafts.send"]

\* The operation d awaits the call api.
Issue(d, api) == [d EXCEPT !.pc = "await", !.api = api, !.calls = @ \cup {api}]

\* The operation d ends with outcome.
Finished(d, outcome) ==
  [d EXCEPT !.pc = "idle", !.api = "none", !.left = 0, !.got = 0, !.outcome = outcome]

Returned(op) == [NoOutcome EXCEPT !.kind = "value", !.value = op]

\* An operation from its entry to its first await (draft.ts 60-68, 156-159,
\* 182-185, 209-217, 305-308, 378-381): ensureClient, whose throw the
\* operation's own catch receives, and then the first call: the first
\* attachment of a draft that has any, the Gmail call otherwise.
Enter(via, params, op, client) ==
  LET d == [NoDraft EXCEPT !.via = via, !.params = params, !.op = op] IN
  IF ~client
  THEN Finished(d, WrapError(op, ClientError))
  ELSE IF op \in {"createDraft", "updateDraft"} /\ params.data.attachments > 0
  THEN Issue([d EXCEPT !.left = params.data.attachments - 1], "processAttachment")
  ELSE Issue(d, GmailCall[op])

\* What the awaited call can answer: a value, a value that reports no
\* success (attachment service and Drive), an empty list, or a throw.
Results(api) ==
  CASE api \in {"processAttachment", "downloadFile"} -> {"ok", "unsuccessful", "fail"}
    [] api = "drafts.list" -> {"ok", "empty", "fail"}
    [] OTHER -> {"ok", "fail"}

\* The operation d from the answer of its awaited call to its next await or
\* its end.  left: attachments still to process; got: processed attachments
\* still to download.  listDrafts gets the draft the list names through
\* getDraft, whose failure both catches wrap in turn.
Resume(d, result) ==
  LET got == d.got + (IF d.api = "processAttachment" /\ result = "ok" THEN 1 ELSE 0) IN
  IF result = "fail"
  THEN Finished(d, IF d.op = "listDrafts" /\ d.api = "drafts.get"
                   THEN WrapError("listDrafts", WrapError("getDraft", ApiError))
                   ELSE WrapError(d.op, ApiError))
  ELSE IF d.api = "processAttachment" /\ d.left > 0
  THEN Issue([d EXCEPT !.left = @ - 1, !.got = got], "processAttachment")
  ELSE IF d.api \in {"processAttachment", "downloadFile"} /\ got > 0
  THEN Issue([d EXCEPT !.got = got - 1], "downloadFile")
  ELSE IF d.api \in {"processAttachment", "downloadFile"}
  THEN Issue([d EXCEPT !.got = 0], GmailCall[d.op])
  ELSE IF d.api = "drafts.list" /\ result = "ok"
  THEN Issue(d, "drafts.get")
  ELSE Finished(d, Returned(d.op))

\* draft.ts 45-47: the Gmail service hands the draft service a client.
UpdateClient ==
  /\ gmailClient' = TRUE
  /\ UNCHANGED <<boot, draft, handlerVars>>

\* draft.ts 323-376: manageDraft is called and runs to its throw or to the
\* first await of the operation it calls.
ManageDraft(action, draftId, data) ==
  /\ draft.pc = "idle"
  /\ LET params == [action |-> action, draftId |-> draftId, data |-> data]
         route == manageDraft(params) IN
       draft' = IF route.op = "none"
                THEN Finished([NoDraft EXCEPT !.via = "manageDraft", !.params = params],
                              route.error)
                ELSE Enter("manageDraft", params, route.op, gmailClient)
  /\ UNCHANGED <<boot, gmailClient, handlerVars>>

\* An operation is called on the service itself, with the arguments its
\* signature asks for.
InvokeDraftOp(op, draftId, data) ==
  /\ draft.pc = "idle"
  /\ draft' = Enter("direct", [action |-> "none", draftId |-> draftId, data |-> data],
                    op, gmailClient)
  /\ UNCHANGED <<boot, gmailClient, handlerVars>>

\* The call the operation awaits is answered.
ApiReturns(result) ==
  /\ draft.pc = "await"
  /\ result \in Results(draft.api)
  /\ draft' = Resume(draft, result)
  /\ UNCHANGED <<boot, gmailClient, handlerVars>>

\* -------------------------------------------------------------------- Next

OtherTools == {"get_emails"}

\* Refresh tokens of the credentials of the account in focus.
FocusGrants == {tokens[e].refresh : e \in Focus} \ {0}

Next ==
  \/ \E p \in Procs, e \in Focus, m \in Metas, r \in RequiredSets,
        c \in Codes \cup {NoCode} : UseRegister(p, e, m, r, c)
  \/ \E p \in Procs : UseValidateToken(p)
  \/ \E p \in Procs : UseRefreshToken(p)
  \/ \E rt \in inflight, o \in {"ok", "rotated", "rejected", "transient"} :
        RefreshSettles(rt, o)
  \/ \E p \in Procs : UseSaveRefreshed(p)
  \/ \E p \in Procs : UseGetTokenFromCode(p)
  \/ \E p \in Procs : UseSaveExchanged(p)
  \/ \E p \in Procs : UseGenerateAuthUrl(p)
  \/ \E p \in Procs, e \in Focus : ForgetGoogleAccount(p, e)
  \/ \E p \in Procs : ListGoogleAccounts(p)
  \/ \E p \in Procs, t \in OtherTools, err \in OtherErrors : OtherToolFails(p, t, err)
  \/ \E p \in Procs : UnknownToolCall(p)
  \/ \E e \in Focus : Expire(e)
  \/ \E rt \in FocusGrants : RevokeAtServer(rt)
  \/ \E u \in RequiredSets, c \in Codes : UserConsents(u, c)

Spec == Init /\ [][Next]_vars

\* The Scope Reconciler at work: a use_google_account call has registered
\* its account and is about to validate; the scopes of the stored credential
\* and the scopes the call requires are any sets of ScopeStrings, among them
\* the empty set and strings that differ in case only.
ScopeStrings == {"read", "Read", "write"}

InitReconcile ==
  /\ \E granted \in SUBSET ScopeStrings, required \in SUBSET ScopeStrings :
       /\ tokens = [e \in Emails |->
                      IF e \in Focus
                      THEN [InitCredential(e) EXCEPT !.scope = granted]
                      ELSE InitCredential(e)]
       /\ args = [p \in Procs |->
                    IF p = 1
                    THEN [name |-> "use_google_account", email |-> "a@x.com",
                          meta |-> [category |-> "work", description |-> "d1"],
                          required_scopes |-> required, auth_code |-> NoCode]
                    ELSE NoArgs]
  /\ registry = <<[email |-> "a@x.com", category |-> "work",
                   description |-> "d1", created |-> 0],
                  [email |-> "b@x.com", category |-> "personal",
                   description |-> "d2", created |-> 0]>>
  /\ grants = {[rt |-> tokens[e].refresh, scope |-> tokens[e].scope] : e \in Emails}
  /\ pending = {}
  /\ codes = [c \in Codes |-> [st |-> "unissued", scope |-> {}]]
  /\ revoked = {}
  /\ issued = InitIssued
  /\ inflight = {}
  /\ calls = 1
  /\ pc = [p \in Procs |-> IF p = 1 THEN "validateToken" ELSE "idle"]
  /\ tokenStatus = [p \in Procs |-> NoStatus]
  /\ newToken = [p \in Procs |-> NoToken]
  /\ storeUp = TRUE
  /\ boot = Running
  /\ gmailClient = FALSE
  /\ draft = NoDraft
  /\ sent = {}
  /\ hist = [refreshReqs |-> [e \in Emails |-> 0], rejected |-> {}, reused |-> {},
             absentForget |-> FALSE, abandoned |-> {}]

NextReconcile ==
  \/ \E p \in Procs : UseValidateToken(p)
  \/ \E p \in Procs : UseGenerateAuthUrl(p)

SpecReconcile == InitReconcile /\ [][NextReconcile]_vars

\* The refresh path of use_google_account with callers that give up, under
\* the scheduling the runtime gives: a continuation that can run does run,
\* and a request to the authorization server is answered or times out.
RefreshOutcomes == {"ok", "rotated", "rejected", "transient"}

NextLive ==
  \/ \E p \in Procs, e \in Focus :
        UseRegister(p, e, [category |-> "work", description |-> "d1"], {"read"}, NoCode)
  \/ \E p \in Procs : UseValidateToken(p)
  \/ \E p \in Procs : UseRefreshToken(p)
  \/ \E rt \in inflight, o \in RefreshOutcomes : RefreshSettles(rt, o)
  \/ \E p \in Procs : UseSaveRefreshed(p)
  \/ \E p \in Procs : UseGenerateAuthUrl(p)
  \/ \E e \in Focus : Expire(e)
  \/ \E rt \in FocusGrants : RevokeAtServer(rt)
  \/ \E p \in Procs : Abandon(p)

LiveFairness ==
  /\ WF_vars(\E rt \in inflight, o \in RefreshOutcomes : RefreshSettles(rt, o))
  /\ \A p \in Procs : WF_vars(UseSaveRefreshed(p))

SpecLive == Init /\ [][NextLive]_vars /\ LiveFairness

\* The server over a token store whose storage can fail.
NextStore ==
  \/ Next
  \/ StoreOutage
  \/ StoreRecovers
  \/ \E p \in Procs : TokenStoreFails(p)
  \/ \E p \in Procs, e \in Focus : EntryStoreFails(p, "forget_google_account", e)
  \/ \E p \in Procs : EntryStoreFails(p, "list_google_accounts", NoArgs.email)

SpecStore == Init /\ [][NextStore]_vars

\* The server against an authorization server whose token response may come
\* without a scope list.
NextExchange ==
  \/ Next
  \/ \E p \in Procs : UseGetTokenFromCodeUnscoped(p)

\* Pending Authorizations live as long as the process: the server has
\* answered earlier calls with consent URLs, which are pending.
InitExchange ==
  /\ InitServer
  /\ pending \in SUBSET RequiredSets
  /\ boot = Running

SpecExchange == InitExchange /\ [][NextExchange]_vars

\* The server from its construction: run() first, tool calls once it is
\* connected.
InitRun == InitServer /\ pending = {} /\ boot = Constructed

NextRun ==
  \/ RunStarts
  \/ ModuleInitialized
  \/ ModuleInitFails
  \/ Connects
  \/ ConnectFails
  \/ Next

SpecRun == InitRun /\ [][NextRun]_vars

\* The draft service at work: its client arrives at some moment, and callers
\* use manageDraft or the operations themselves, one at a time.
NextDraft ==
  \/ UpdateClient
  \/ \E a \in DraftActions, id \in DraftIds, data \in DraftDatas : ManageDraft(a, id, data)
  \/ \E op \in DraftOps, id \in DraftIds \ {"absent"}, data \in DraftDatas \ {NoData} :
        InvokeDraftOp(op, id, data)
  \/ \E r \in {"ok", "unsuccessful", "empty", "fail"} : ApiReturns(r)

SpecDraft == Init /\ [][NextDraft]_vars

\* ================================================================== claims

Stepped(p, from) == pc[p] = from /\ pc'[p] # from

SentStatus(st) == {m \in sent : m.resp.status = st}

\* C1: concurrent validations of one account with an expired access token and
\* a valid refresh token cause exactly one refresh request: since the access
\* token expired, and while no refresh has failed, at most one refresh
\* request has been sent for the account.
C1_SingleFlightRefresh == \A e \in Emails : hist.refreshReqs[e] <= 1

\* C2: a call that finds the stored credential unexpired and with the
\* required scopes returns success at once, with or without an auth_code, and
\* changes neither the token store nor anything at the authorization server
\* (no refresh request, no code exchange).
C2_ValidNeedsNoServer ==
  [][\A p \in Procs :
       LET t == tokens[args[p].email] IN
       (/\ Stepped(p, "validateToken")
        /\ t # NoToken
        /\ args[p].required_scopes \subseteq t.scope
        /\ ~t.expired)
       => /\ pc'[p] = "idle"
          /\ \E m \in sent' : /\ m.args.email = args[p].email
                               /\ m.args.auth_code = args[p].auth_code
                               /\ ~m.resp.isError
                               /\ m.resp.status = "success"
          /\ UNCHANGED <<tokens, serverVars, inflight, pending>>]_vars

C2_Witness ==
  \E m \in sent :
    /\ m.resp.text = "Account is already authenticated with required scopes"
    /\ m.args.auth_code # NoCode
    /\ tokens[m.args.email] # NoToken

\* C3 as claimed: the call that refreshes persists the refreshed credential
\* and reports success (valid=true); it is not answered with a retry.
C3_RefreshReturnsValid ==
  [][\A p \in Procs :
       Stepped(p, "saveRefreshed")
       => /\ tokens'[args[p].email] = newToken[p]
          /\ \E m \in sent' : m.resp.status = "success"]_vars

\* C3 as amended: the call that refreshes persists the refreshed credential
\* and answers status 'refreshing', asking the caller to retry.
C3_RefreshPersistsAndAsksRetry ==
  [][\A p \in Procs :
       Stepped(p, "saveRefreshed")
       => /\ tokenStatus[p].reason = "Token expired"
          /\ tokens'[args[p].email] = newToken[p]
          /\ ~tokens'[args[p].email].expired
          /\ tokens'[args[p].email].access # tokenStatus[p].token.access
          /\ pc'[p] = "idle"
          /\ sent' = {Sent([args[p] EXCEPT !.meta = NoArgs.meta],
                           Reply("refreshing",
                                 "Token refreshed successfully, please retry the request"))}]_vars

C3_Witness ==
  \E m \in SentStatus("refreshing") :
    /\ tokens[m.args.email] # NoToken
    /\ ~tokens[m.args.email].expired
    /\ tokens[m.args.email].access > InitIssued

\* C4: a successful refresh yields, and the handler stores, a credential with
\* a new access token that is not expired, the scopes of the refreshed
\* credential, and the refresh token of the refreshed credential unless the
\* server rotated it.
C4_RefreshKeepsRefreshTokenAndScopes ==
  [][\A p \in Procs :
       LET old == tokenStatus[p].token IN
       /\ (pc[p] = "awaitRefresh" /\ pc'[p] = "saveRefreshed")
          => /\ newToken'[p].access # old.access
             /\ ~newToken'[p].expired
             /\ newToken'[p].scope = old.scope
             /\ (revoked' = revoked => newToken'[p].refresh = old.refresh)
             /\ (newToken'[p].refresh # old.refresh => old.refresh \in revoked')
       /\ Stepped(p, "saveRefreshed")
          => /\ tokens'[args[p].email].access = newToken[p].access
             /\ tokens'[args[p].email].access # old.access
             /\ ~tokens'[args[p].email].expired
             /\ tokens'[args[p].email].scope = old.scope
             /\ (tokens'[args[p].email].refresh = old.refresh
                 \/ (old.refresh \in revoked /\ tokens'[args[p].email].refresh > old.refresh))]_vars

C4_Witness ==
  \E m \in SentStatus("refreshing") :
    /\ tokens[m.args.email].refresh = InitCredential(m.args.email).refresh
    /\ tokens[m.args.email].access # InitCredential(m.args.email).access
    /\ tokens[m.args.email].scope = InitCredential(m.args.email).scope
    /\ InitCredential(m.args.email).refresh \notin revoked

\* C5: the consent URL issued for an account requests the union of the
\* scopes its stored credential already has and the newly required ones.
C5_ConsentUrlAccumulatesScopes ==
  [][\A p \in Procs :
       Stepped(p, "generateAuthUrl")
       => \E m \in sent' :
            /\ m.resp.status = "auth_required"
            /\ m.resp.url = tokens[args[p].email].scope \cup args[p].required_scopes]_vars

\* C6: a code is exchanged at most once.  An exchange of an issued code
\* consumes it, a consumed code stays consumed, and an exchange of a code that
\* is not exchangeable is answered with ExchangeError and changes neither the
\* token store nor the server's codes and grants.
C6_CodesAreSingleUse ==
  [][/\ \A c \in Codes : codes[c].st = "consumed" => codes'[c] = codes[c]
     /\ \A p \in Procs :
          Stepped(p, "getTokenFromCode")
          => LET c == args[p].auth_code IN
             IF c \in Codes /\ codes[c].st = "issued"
             THEN pc'[p] = "saveExchanged" /\ codes'[c].st = "consumed"
             ELSE /\ pc'[p] = "idle"
                  /\ \E m \in sent' : /\ m.resp.isError
                                       /\ m.resp.text = ExchangeError.message
                                       /\ m.args.auth_code = c
                  /\ UNCHANGED <<tokens, codes, grants, issued>>]_vars

C6_Witness ==
  \E m \in sent :
    /\ m.resp.isError
    /\ m.resp.text = ExchangeError.message
    /\ m.args.auth_code \in hist.reused
    /\ codes[m.args.auth_code].st = "consumed"

\* C7: when forget_google_account has answered, the account has no record
\* and no credential: the list does not hold it and validateToken answers
\* "no credential" for every scope requirement.
C7_ForgetRemovesAccountAndCredential ==
  [][\A m \in sent' :
       m.args.name = "forget_google_account"
       => LET e == m.args.email IN
          /\ ~m.resp.isError
          /\ e \notin RegisteredEmails(registry')
          /\ tokens'[e] = NoToken
          /\ \A i \in 1..Len(listAccounts(registry', tokens')) :
               listAccounts(registry', tokens')[i].email # e
          /\ \A r \in SUBSET Scopes :
               /\ ~validateToken(tokens', e, r).valid
               /\ validateToken(tokens', e, r).reason = "no credential"]_vars

C7_Witness ==
  \E m \in sent :
    /\ m.args.name = "forget_google_account"
    /\ tokens[m.args.email] = NoToken
    /\ m.args.email \notin RegisteredEmails(registry)
    /\ \E g \in grants : g.rt = InitCredential(m.args.email).refresh

\* C8: the registration at the start of a use_google_account call for an
\* account that is registered leaves the registry as it is (category,
\* description and creation time of the record included), whatever category
\* and description the call brings.
C8_RegisterFirstWins ==
  [][\A p \in Procs :
       (pc[p] = "idle" /\ pc'[p] = "validateToken"
        /\ args'[p].email \in RegisteredEmails(registry))
       => registry' = registry]_vars

C8_Witness ==
  \E p \in Procs :
    /\ pc[p] = "validateToken"
    /\ \E i \in 1..Len(registry) :
         /\ registry[i].email = args[p].email
         /\ registry[i].category # args[p].meta.category
         /\ registry[i].description # args[p].meta.description
         /\ registry[i].created < calls

\* C9: once the authorization server has rejected a refresh, the credential
\* whose refresh token was rejected is no longer stored and no refresh
\* request is sent for it again.
C9_RejectedRefreshIsTerminal ==
  /\ \A e \in Emails : tokens[e] # NoToken => tokens[e].refresh \notin hist.rejected
  /\ inflight \cap hist.rejected = {}

\* C10: every failure response carries a machine-readable kind and a
\* human-readable resolution.
C10_FailuresCarryKindAndResolution ==
  \A m \in sent :
    m.resp.isError => /\ "kind" \in m.resp.keys
                      /\ "resolution" \in m.resp.keys

\* Token values other than the stored ones.
OtherSecrets == {101, 102}

\* Token stores that differ from store at most in the access-token and
\* refresh-token values of the credentials it holds: store itself, and store
\* with these values replaced by others.
SecretVariants(store) ==
  {store} \cup
  {[e \in Emails |->
      IF store[e] = NoToken THEN NoToken
      ELSE [store[e] EXCEPT !.access = v[e].access, !.refresh = v[e].refresh]] :
     v \in [Emails -> [access : OtherSecrets, refresh : OtherSecrets]]}

\* C11: the answer of list_google_accounts holds no secret material: it is
\* the same for every two token stores that differ only in the access-token
\* and refresh-token values of the stored credentials.
C11_ListHidesSecrets ==
  [][\A m \in sent' :
       m.args.name = "list_google_accounts"
       => /\ m.resp = ListResponse(registry, tokens)
          /\ \A alt \in SecretVariants(tokens) :
               ListResponse(registry, alt) = m.resp]_vars

C11_Witness ==
  \E m \in sent :
    /\ m.args.name = "list_google_accounts"
    /\ ~m.resp.isError
    /\ \E i \in 1..Len(m.resp.list) :
         /\ m.resp.list[i].email \in Focus
         /\ m.resp.list[i].authenticated
         /\ tokens[m.resp.list[i].email].access > InitIssued

\* C12: a token-store I/O failure surfaces as the StoreUnavailable error.  A
\* handler step that reads or writes the store while it fails ends the call
\* with the error response of StoreUnavailable: it is not answered with
\* "no credential", no consent URL is issued, the request is not tried again,
\* and neither the store nor the authorization server is touched.
C12_StoreFailureSurfaces ==
  [][/\ \A p \in Procs :
          (~storeUp /\ pc[p] \in StoreSteps /\ pc'[p] # pc[p])
          => /\ pc'[p] = "idle"
             /\ sent' = {Sent([args[p] EXCEPT !.meta = NoArgs.meta],
                              formatErrorResponse(StoreUnavailable))}
             /\ UNCHANGED <<registry, tokens, pending, serverVars, inflight>>
     /\ \A m \in sent' :
          (~storeUp /\ m.args.name \in {"forget_google_account", "list_google_accounts"})
          => /\ m.resp = formatErrorResponse(StoreUnavailable)
             /\ UNCHANGED <<registry, tokens>>]_vars

C12_Witness ==
  \E m \in sent :
    /\ ~storeUp
    /\ m.args.name = "use_google_account"
    /\ m.resp.isError
    /\ m.resp.text = StoreUnavailable.message
    /\ tokens[m.args.email] # NoToken
    /\ pending = {}

\* C13: isSatisfied(granted, required) is true exactly when every string of
\* required is in granted, strings compared exactly, and so for every granted
\* set when required is empty: a validation of an unexpired credential
\* succeeds exactly when required is a subset of granted, and is answered
\* "insufficient scope" otherwise.
C13_IsSatisfiedIsSubset ==
  [][\A p \in Procs :
       LET g == tokens[args[p].email].scope
           r == args[p].required_scopes IN
       (Stepped(p, "validateToken") /\ tokens[args[p].email] # NoToken
        /\ ~tokens[args[p].email].expired)
       => /\ isSatisfied(g, r) <=> (r \subseteq g)
          /\ (r = {}) => isSatisfied(g, r)
          /\ (r \subseteq g) <=> (/\ pc'[p] = "idle"
                                   /\ \E m \in sent' : m.resp.status = "success")
          /\ ~(r \subseteq g) <=> (/\ pc'[p] = "generateAuthUrl"
                                    /\ tokenStatus'[p].reason = "insufficient scope")]_vars

C13_Witness ==
  \E p \in Procs :
    /\ pc[p] = "generateAuthUrl"
    /\ tokenStatus[p].reason = "insufficient scope"
    /\ args[p].required_scopes = {"Read"}
    /\ tokens[args[p].email].scope = {"read", "write"}

\* C14: removal is idempotent.  forget_google_account succeeds whether or
\* not the account is registered and whether or not it has a credential; it
\* leaves the token store as it is when the account has no credential and
\* the registry as it is when the account is not registered, and a second
\* removal of the same account would leave the state of the first.
C14_RemovalIsIdempotent ==
  [][\A m \in sent' :
       m.args.name = "forget_google_account"
       => LET e == m.args.email IN
          /\ ~m.resp.isError
          /\ m.resp.status = "success"
          /\ tokens[e] = NoToken => tokens' = tokens
          /\ e \notin RegisteredEmails(registry) => registry' = registry
          /\ removeAccount(registry', tokens', e) =
               [registry |-> registry', tokens |-> tokens']]_vars

\* The account was registered and authenticated when the server started, and
\* the forget call just answered found it already removed.
C14_Witness ==
  \E m \in sent :
    /\ m.args.name = "forget_google_account"
    /\ m.resp.status = "success"
    /\ hist.absentForget
    /\ \E g \in grants : g.rt = InitCredential(m.args.email).refresh

\* C15: no two records of the registry have the same identifier, whatever
\* the interleaving of the use_google_account calls that register it.
C15_IdentifiersUnique ==
  \A i, j \in 1..Len(registry) : registry[i].email = registry[j].email => i = j

\* Two calls for the same new identifier are in progress and the registry
\* holds one record of it.
C15_Witness ==
  \E p, q \in Procs :
    /\ p # q
    /\ pc[p] # "idle" /\ pc[q] # "idle"
    /\ args[p].name = "use_google_account" /\ args[q].name = "use_google_account"
    /\ args[p].email = args[q].email
    /\ Cardinality({i \in 1..Len(registry) :
                      registry[i].email = args[p].email /\ registry[i].created > 0}) = 1

\* C16: the store holds at most one credential per account, and a saveToken
\* replaces the credential of its account by the one it is given, field by
\* field, and touches no other account's.
C16_PutReplaces ==
  [][/\ DOMAIN tokens' = Emails
     /\ \A e \in Emails : tokens'[e] = NoToken \/ tokens'[e].access > 0
     /\ \A p \in Procs :
          (Stepped(p, "saveRefreshed") \/ Stepped(p, "saveExchanged"))
          => /\ tokens'[args[p].email] = newToken[p]
             /\ \A e \in Emails \ {args[p].email} : tokens'[e] = tokens[e]]_vars

\* The only call so far has exchanged a code for {write} and saved the
\* credential over the one for {read} the account started with.
C16_Witness ==
  \E m \in sent :
    /\ calls = 1
    /\ m.resp.text = "Authentication successful! Token saved. Please retry your request."
    /\ \E g \in grants : g.rt = InitCredential(m.args.email).refresh
    /\ tokens[m.args.email].scope = {"write"}
    /\ tokens[m.args.email].refresh # InitCredential(m.args.email).refresh

\* C17: no lost update on one account; in particular a credential saved by a
\* code exchange is never overwritten by the result of a refresh that started
\* from the credential before it: when a handler saves a refreshed
\* credential, the stored credential is still of the grant the refresh
\* started from (it has the refresh token the handler read, or the one the
\* refresh rotated it to).
C17_NoLostUpdate ==
  [][\A p \in Procs :
       Stepped(p, "saveRefreshed")
       => \/ tokens[args[p].email] = NoToken
          \/ tokens[args[p].email].refresh \in
               {tokenStatus[p].token.refresh, newToken[p].refresh}]_vars

\* C18: a refresh in flight completes whether or not a caller has given up.
\* Every handler awaiting it gets to the end of its call; all handlers
\* awaiting the same refresh get the same outcome (the same credential, or
\* the same error); and each handler that got a credential writes it to the
\* token store, abandoned or not.
C18_RefreshOutlivesCaller ==
  /\ \A p \in Procs : (pc[p] = "awaitRefresh") ~> (pc[p] = "idle")
  /\ [][/\ \A p \in Procs :
             Stepped(p, "saveRefreshed")
             => /\ tokens'[args[p].email] = newToken[p]
                /\ pc'[p] = "idle"
        /\ \A p, q \in Procs :
             (/\ pc[p] = "awaitRefresh" /\ pc[q] = "awaitRefresh"
              /\ tokenStatus[p].token.refresh = tokenStatus[q].token.refresh
              /\ pc'[p] # "awaitRefresh")
             => /\ pc'[q] = pc'[p]
                /\ newToken'[q] = newToken'[p]
                /\ pc'[p] = "saveRefreshed" => newToken'[p] # NoToken
                /\ pc'[p] = "idle" =>
                     \E mp, mq \in sent' : /\ mp.args = args[p] /\ mq.args = args[q]
                                            /\ mp.resp = mq.resp /\ mp.resp.isError]_vars

\* The only call so far was abandoned while its refresh was in flight, and
\* its handler has written the refreshed credential.
C18_Witness ==
  \E p \in hist.abandoned :
    /\ calls = 1
    /\ pc[p] = "idle"
    /\ SentStatus("refreshing") # {}
    /\ tokens["a@x.com"].access > InitIssued
    /\ ~tokens["a@x.com"].expired

\* C19: re-authorization is reachable after a rejected refresh: a call that
\* brings a valid unused authorization code for an account whose stored
\* refresh token the server has rejected exchanges the code.
C19_CodeExchangedAfterRejection ==
  [][\A p \in Procs :
       (/\ Stepped(p, "validateToken")
        /\ Exchangeable(codes, args[p].auth_code)
        /\ tokens[args[p].email] # NoToken
        /\ tokens[args[p].email].refresh \in hist.rejected)
       => pc'[p] = "getTokenFromCode"]_vars

\* The records the registry holds for an identifier.
Records(reg, e) == {reg[i] : i \in {k \in 1..Len(reg) : reg[k].email = e}}

\* The accounts of the calls whose handlers move in the step, or are
\* answered in it.
StepAccounts ==
  {args[p].email : p \in {q \in Procs : pc'[q] # pc[q]}}
    \cup {args'[p].email : p \in {q \in Procs : pc'[q] # pc[q]}}
    \cup {m.args.email : m \in sent'}

\* C20: operations on different accounts are independent: a step of a call
\* for one account changes neither the record nor the credential of any
\* other account (whose access token may reach its expiry meanwhile).
C20_OtherAccountsUntouched ==
  [][\A e \in Emails \ StepAccounts :
       /\ Records(registry', e) = Records(registry, e)
       /\ \/ tokens'[e] = tokens[e]
          \/ /\ tokens[e] # NoToken
             /\ tokens'[e] = [tokens[e] EXCEPT !.expired = TRUE]
             /\ UNCHANGED <<registry, pc, serverVars>>]_vars

\* The account a@x.com has been registered by a call and given a credential by a
\* code exchange, and b@x.com has its record and its credential as before.
C20_Witness ==
  \E m \in sent :
    /\ m.args.email = "a@x.com"
    /\ m.resp.text = "Authentication successful! Token saved. Please retry your request."
    /\ \E i \in 1..Len(registry) :
         registry[i].email = "a@x.com" /\ registry[i].created > 0
    /\ tokens["a@x.com"].refresh > InitIssued
    /\ tokens["b@x.com"] = InitCredential("b@x.com")
    /\ \E j \in 1..Len(registry) :
         registry[j].email = "b@x.com" /\ registry[j].created = 0

\* C21: a successful exchange of a code whose consent URL is pending yields
\* a credential whose scope set is the scope set of that consent URL (which
\* is what the server's response lists when it lists scopes), whether or not
\* the response lists scopes.
C21_ExchangedScopeIsOfItsConsent ==
  [][\A p \in Procs :
       /\ Stepped(p, "getTokenFromCode") /\ pc'[p] = "saveExchanged"
       /\ codes[args[p].auth_code].scope \in pending
       => newToken'[p].scope = codes[args[p].auth_code].scope]_vars

\* C22: a refresh that fails although the authorization server still honours
\* the refresh token (a transient failure) is not terminal: the stored
\* credentials stay as they were, each waiting caller is answered the
\* TransientRefreshError and no caller an authorization requirement, no
\* consent URL is issued, and the handler sends no further refresh request
\* for the call (one request per call, within the two the retry allowance
\* admits).
C22_TransientRefreshIsNotTerminal ==
  [][\A p \in Procs :
       /\ pc[p] = "awaitRefresh" => pc'[p] # "refreshToken"
       /\ (/\ pc[p] = "awaitRefresh" /\ pc'[p] = "idle"
           /\ tokenStatus[p].token.refresh \notin revoked)
          => /\ tokens' = tokens
             /\ Sent(args[p], formatErrorResponse(TransientRefreshError)) \in sent'
             /\ \A m \in sent' : m.resp.status # "auth_required"
             /\ pending' = pending
             /\ inflight' \subseteq inflight]_vars

\* A caller has just been answered the transient error and the account's
\* expired credential, refresh token included, is still stored.
C22_Witness ==
  /\ \E m \in sent : /\ m.args.name = "use_google_account"
                      /\ m.resp = formatErrorResponse(TransientRefreshError)
  /\ tokens["a@x.com"].expired
  /\ tokens["a@x.com"].refresh = InitCredential("a@x.com").refresh
  /\ tokens["a@x.com"].refresh \notin revoked

\* C23: a stored credential belongs to a registered account.
C23_NoOrphanCredential ==
  \A e \in Emails : tokens[e] # NoToken => e \in RegisteredEmails(registry)

\* C24: a validation that finds no credential or insufficient scopes changes
\* no stored credential and sends no refresh request, and neither does the
\* auth_required answer that follows it; a handler asks for a refresh only
\* of a credential whose scopes cover the required ones.
C24_AuthRequiredKeepsCredential ==
  [][\A p \in Procs :
       /\ (/\ Stepped(p, "validateToken")
           /\ tokenStatus'[p].reason \in {"no credential", "insufficient scope"})
          => /\ tokens' = tokens
             /\ inflight' = inflight
             /\ hist'.refreshReqs = hist.refreshReqs
             /\ pc'[p] \in {"generateAuthUrl", "getTokenFromCode"}
       /\ Stepped(p, "generateAuthUrl")
          => /\ tokens' = tokens
             /\ inflight' = inflight
             /\ hist'.refreshReqs = hist.refreshReqs
             /\ \E m \in sent' : m.resp.status = "auth_required"
       /\ pc'[p] = "refreshToken"
          => isSatisfied(tokenStatus'[p].token.scope, args'[p].required_scopes)]_vars

\* A call requiring {write} has just been answered auth_required while the
\* account's credential, expired and granted {read} only, is still stored
\* and no refresh request has been sent for it.
C24_Witness ==
  /\ \E m \in sent : /\ m.resp.status = "auth_required"
                      /\ m.args.required_scopes = {"write"}
  /\ tokens["a@x.com"] = [InitCredential("a@x.com") EXCEPT !.expired = TRUE]
  /\ hist.refreshReqs["a@x.com"] = 0
  /\ inflight = {}

\* a comes before every b in seq.
Before(seq, a, b) ==
  \A j \in 1..Len(seq) : seq[j] = b => \E i \in 1..(j - 1) : seq[i] = a

\* C25: run() initialises the account module before the Gmail module and
\* the Gmail module before the calendar module; it connects the server only
\* when all three are initialised; tool calls are served only by a connected
\* server; and a run() in which an initialisation (or the connect) failed
\* stays failed: it never connects and serves no call.
C25_StartupOrder ==
  /\ [](/\ Before(boot.ready, "account", "gmail")
        /\ Before(boot.ready, "gmail", "calendar")
        /\ boot.pc \in {"connecting", "running"}
           => {boot.ready[i] : i \in 1..Len(boot.ready)} = {"account", "gmail", "calendar"}
        /\ calls > 0 => boot.pc = "running"
        /\ boot.pc = "failed" => calls = 0)
  /\ [][boot.pc = "failed" => boot'.pc = "failed"]_vars

\* run() went through the three initialisations and the connect, and the
\* server has since taken a tool call.
C25_Witness ==
  /\ boot.pc = "running"
  /\ boot.ready = <<"account", "gmail", "calendar">>
  /\ calls = 1

\* A manageDraft request that lacks what its action needs: create without
\* data, update without draftId or data, delete or send without draftId (a
\* draftId that is the empty string counts as none), or an action outside
\* the five.
Incomplete(params) ==
  \/ params.action = "create" /\ ~params.data.present
  \/ params.action = "update" /\ (Falsy(params.draftId) \/ ~params.data.present)
  \/ params.action \in {"delete", "send"} /\ Falsy(params.draftId)
  \/ params.action \notin {"create", "read", "update", "delete", "send"}

\* C26: manageDraft answers an incomplete request with a GmailError of code
\* INVALID_PARAMS, having entered no operation and made no call; a read
\* without draftId is served by listDrafts and a read with a draftId by
\* getDraft.
C26_ManageDraftChecksFirst ==
  draft.via = "manageDraft" =>
    /\ Incomplete(draft.params)
       => /\ draft.pc = "idle"
          /\ draft.op = "none"
          /\ draft.outcome.kind = "error"
          /\ draft.outcome.code = "INVALID_PARAMS"
          /\ draft.calls = {}
    /\ (draft.params.action = "read" /\ Falsy(draft.params.draftId))
       => draft.op = "listDrafts"
    /\ (draft.params.action = "read" /\ ~Falsy(draft.params.draftId))
       => draft.op = "getDraft"

\* The service has its client, and an update request that names a draft but
\* brings no data has been rejected.
C26_Witness ==
  /\ gmailClient
  /\ draft.via = "manageDraft"
  /\ draft.params = [action |-> "update", draftId |-> "d1", data |-> NoData]
  /\ draft.outcome.code = "INVALID_PARAMS"
  /\ draft.calls = {}

\* An operation of the draft service is entered in this step.
DraftOpEntered == draft.pc = "idle" /\ draft' # draft /\ draft'.op # "none"

\* C27: an operation entered while the service has no client fails with the
\* GmailError 'Gmail client not initialized' of code CLIENT_ERROR and makes
\* no call to Gmail, the attachment service or Drive.
C27_FailsWithClientError ==
  [][DraftOpEntered /\ ~gmailClient
     => /\ draft'.pc = "idle"
        /\ draft'.outcome = ClientError
        /\ draft'.calls = {}]_vars

====
